---- MODULE Spec2Model ----
(***************************************************************************)
(* Canada Wildfire Dashboard (app.py): a Streamlit script that loads the   *)
(* NASA FIRMS feed through a one-hour cache, filters it by the selected    *)
(* date and renders a map, key metrics, charts and a CSV export.           *)
(* Every browser session re-runs the script top to bottom on each          *)
(* interaction; the only state shared between sessions is the cache of     *)
(* load_firms_data.                                                        *)
(***************************************************************************)
EXTENDS Integers, Sequences, FiniteSets, TLC

VARIABLES
    feed,          \* what FIRMS_URL serves now: [ok, rows]
    cache,         \* the st.cache_data entry of load_firms_data: [present, value, expires]
    storedAt,      \* history: the clock when the cache entry was written
    lock,          \* holder of the cache's compute lock, 0 when free
    clock,         \* seconds since the process started
    pc,            \* per session: position of the script run
    err,           \* per session: exception that ended the run, "" when none
    df,            \* per session: the frame load_firms_data is building
    gdf,           \* per session: the table returned by load_firms_data()
    widgets,       \* per session: the values of the sidebar widgets
    selected_date, \* per session: value returned by st.sidebar.date_input
    filtered,      \* per session: rows of gdf on selected_date
    view,          \* per session: what the run has rendered so far
    prev,          \* per session: history, the previous completed run
    budget         \* steps taken so far: [runs, changes] per session, feeds

vars == <<feed, cache, storedAt, lock, clock, pc, err, df, gdf, widgets,
          selected_date, filtered, view, prev, budget>>

-----------------------------------------------------------------------------
(* Bounds of the model *)

MaxRows == 2          \* rows in one feed document
MaxClock == 5400      \* the clock stops here
ClockStep == 1800     \* seconds between two observations of the clock
MaxRuns == 3          \* script runs per session
MaxChanges == 2       \* widget changes per session
MaxFeedUpdates == 1   \* times the upstream feed changes

Sessions == {1, 2}
UISessions == {1}

-----------------------------------------------------------------------------
(* Values *)

\* a missing numeric cell (pandas NaN) and a missing timestamp (pandas NaT)
NaN == 0 - 9999
NaT == [date |-> <<0, 0, 0>>, time |-> 0 - 1]
NoDate == <<0, 0, 0>>

None == <<>>
Some(x) == <<x>>

\* acq_date cells as the CSV carries them: year, month, day tokens;
\* brightness is kept in tenths of a kelvin (3001 is 300.1);
\* <<2024, 13, 40>> does not denote a date
RawRow(lat, lon, d, t, b, c, s) ==
    [latitude |-> lat, longitude |-> lon, acq_date |-> d, acq_time |-> t,
     brightness |-> b, confidence |-> c, satellite |-> s]

RowPool ==
    { RawRow(50, 0 - 106, <<2024, 5, 1>>, 1345, 3001, 80, "Terra"),
      RawRow(56, 0 - 75, <<2024, 5, 2>>, 59, 3105, 50, "Aqua"),
      RawRow(NaN, 0 - 75, <<2024, 5, 2>>, 59, 3105, 50, "Aqua"),
      RawRow(50, NaN, <<2024, 5, 1>>, 1345, 3001, 80, "Terra"),
      RawRow(56, 0 - 75, <<2024, 13, 40>>, 59, 2950, 50, "Aqua") }

RowA == RawRow(50, 0 - 106, <<2024, 5, 1>>, 1345, 3001, 80, "Terra")
RowB == RawRow(56, 0 - 75, <<2024, 5, 2>>, 59, 3105, 50, "Aqua")
RowNoLat == RawRow(NaN, 0 - 75, <<2024, 5, 2>>, 59, 3105, 50, "Aqua")

\* the documents the feed serves in the multi-session specification
SampleFeeds ==
    { [ok |-> TRUE, rows |-> <<RowA, RowNoLat>>],
      [ok |-> TRUE, rows |-> <<RowB, RowA>>],
      [ok |-> FALSE, rows |-> <<>>] }

SeqsUpTo(S, n) == UNION {[1..k -> S] : k \in 0..n}

\* the documents FIRMS_URL can serve; ok = FALSE: unreachable or not a CSV
Feeds == {[ok |-> TRUE, rows |-> r] : r \in SeqsUpTo(RowPool, MaxRows)}
            \cup {[ok |-> FALSE, rows |-> <<>>]}

\* dates the user can pick in the date input
UserDates == {<<2024, 5, 1>>, <<2024, 5, 2>>, <<2024, 5, 3>>}

Provinces == {"All", "Quebec", "Alberta", "Ontario"}
Cities == {"All", "Red Deer", "Toronto"}
Basemaps == {"OpenStreetMap", "CartoDB.Positron", "CartoDB.DarkMatter"}

-----------------------------------------------------------------------------
(* load_firms_data, step by step *)

IsLeap(y) == (y % 4 = 0 /\ y % 100 # 0) \/ y % 400 = 0

DaysInMonth(y, m) ==
    IF m = 2 THEN (IF IsLeap(y) THEN 29 ELSE 28)
    ELSE IF m \in {4, 6, 9, 11} THEN 30 ELSE 31

\* pd.to_datetime(cell, errors="coerce") on one cell
ToDatetime(cell) ==
    IF Len(cell) = 3 /\ cell[2] \in 1..12
                     /\ cell[3] \in 1..DaysInMonth(cell[1], cell[2])
    THEN [date |-> <<cell[1], cell[2], cell[3]>>, time |-> 0]
    ELSE NaT

\* line 15: df["acq_date"] = pd.to_datetime(df["acq_date"], errors="coerce")
ParseDates(frame) ==
    [i \in DOMAIN frame |->
        [frame[i] EXCEPT !.acq_date = ToDatetime(frame[i].acq_date)]]

\* mutant: the longitude column left out of the subset
NotNaNoLongitude(r) == r.latitude # NaN /\ r.acq_date # NaT

NotNa(r) == r.latitude # NaN /\ r.longitude # NaN /\ r.acq_date # NaT

\* line 16: df.dropna(subset=["latitude", "longitude", "acq_date"])
DropNa(frame) == SelectSeq(frame, NotNa)

\* Point(xy) for xy in zip(longitude, latitude)
Point(r) == [x |-> r.longitude, y |-> r.latitude]

\* lines 17-18: the geometry column
AddGeometry(frame) ==
    [i \in DOMAIN frame |-> [geometry |-> Point(frame[i])] @@ frame[i]]

\* line 19: gdf["value"] = gdf["brightness"]
AddValue(frame) ==
    [i \in DOMAIN frame |-> [value |-> frame[i].brightness] @@ frame[i]]

\* the whole of load_firms_data on a document that parsed
Normalize(rows) == AddValue(AddGeometry(DropNa(ParseDates(rows))))

-----------------------------------------------------------------------------
(* The cache of @st.cache_data(ttl=3600) *)

\* mutant: a two-hour expiry
TTLTwoHours == 2 * 3600

TTL == 3600

NoEntry == [present |-> FALSE, value |-> <<>>, expires |-> 0]

\* an entry is served until the clock reaches its expiry
Live(c, now) == c.present /\ now < c.expires

Store(value, now) == [present |-> TRUE, value |-> value, expires |-> now + TTL]

-----------------------------------------------------------------------------
(* State after the server process has started: no session has run yet *)

DefaultWidgets ==
    [province |-> "All", city |-> "All", date |-> NoDate,
     basemap |-> "OpenStreetMap", hotspots |-> TRUE,
     temperature |-> FALSE, wind |-> FALSE, precipitation |-> FALSE]

EmptyView ==
    [basemap |-> "", heatmap |-> None, markers |-> <<>>,
     total_fires |-> None, max_brightness |-> None,
     latest_detection |-> None, latest_city |-> None,
     pie |-> None, hourly |-> None, confidence_hist |-> None,
     download |-> None, warning |-> FALSE]

NoPrev ==
    [valid |-> FALSE, widgets |-> DefaultWidgets, gdf |-> <<>>,
     selected_date |-> NoDate, view |-> EmptyView]

InitCommon ==
    /\ cache = NoEntry
    /\ storedAt = 0
    /\ lock = 0
    /\ clock = 0
    /\ pc = [s \in Sessions |-> "idle"]
    /\ err = [s \in Sessions |-> ""]
    /\ df = [s \in Sessions |-> <<>>]
    /\ gdf = [s \in Sessions |-> <<>>]
    /\ widgets = [s \in Sessions |-> DefaultWidgets]
    /\ selected_date = [s \in Sessions |-> NoDate]
    /\ filtered = [s \in Sessions |-> <<>>]
    /\ view = [s \in Sessions |-> EmptyView]
    /\ prev = [s \in Sessions |-> NoPrev]
    /\ budget = [runs |-> [s \in Sessions |-> 0],
                 changes |-> [s \in Sessions |-> 0], feeds |-> 0]

Init == feed \in SampleFeeds /\ InitCommon

InitUI == feed \in Feeds /\ InitCommon

-----------------------------------------------------------------------------
(* A script run starts: the first page load, a manual rerun, or a widget   *)
(* change                                                                  *)

Finished(s) == pc[s] \in {"idle", "done", "error"}

\* the state every run starts from; w is the session's widget state
StartRun(s, w) ==
    /\ Finished(s)
    /\ budget.runs[s] < MaxRuns
    /\ widgets' = [widgets EXCEPT ![s] = w]
    /\ prev' = [prev EXCEPT ![s] =
                  IF pc[s] = "done"
                  THEN [valid |-> TRUE, widgets |-> widgets[s], gdf |-> gdf[s],
                        selected_date |-> selected_date[s], view |-> view[s]]
                  ELSE NoPrev]
    /\ pc' = [pc EXCEPT ![s] = "lookup"]
    /\ err' = [err EXCEPT ![s] = ""]
    /\ df' = [df EXCEPT ![s] = <<>>]
    /\ gdf' = [gdf EXCEPT ![s] = <<>>]
    /\ selected_date' = [selected_date EXCEPT ![s] = NoDate]
    /\ filtered' = [filtered EXCEPT ![s] = <<>>]
    /\ view' = [view EXCEPT ![s] = EmptyView]
    /\ UNCHANGED <<feed, cache, storedAt, lock, clock>>

Rerun(s) ==
    /\ StartRun(s, widgets[s])
    /\ budget' = [budget EXCEPT !.runs[s] = @ + 1]

\* the widgets the last run put on the page: a run that died at line 22
\* rendered none, one that died at line 29 only the two selectboxes above it
Rendered(s) ==
    IF pc[s] = "done"
    THEN {"province", "city", "date", "basemap", "hotspots",
          "temperature", "wind", "precipitation"}
    ELSE IF pc[s] = "error" /\ err[s] = "ValueError"
    THEN {"province", "city"}
    ELSE {}

WidgetValues(name) ==
    CASE name = "province" -> Provinces
      [] name = "city" -> Cities
      [] name = "date" -> UserDates
      [] name = "basemap" -> Basemaps
      [] OTHER -> BOOLEAN

\* the user changes one widget, which reruns the script
Change(s) ==
    /\ budget.changes[s] < MaxChanges
    /\ \E name \in Rendered(s) : \E v \in WidgetValues(name) :
          /\ v # widgets[s][name]
          /\ StartRun(s, [widgets[s] EXCEPT ![name] = v])
    /\ budget' = [budget EXCEPT !.runs[s] = @ + 1, !.changes[s] = @ + 1]

-----------------------------------------------------------------------------
(* Line 22: gdf = load_firms_data(), through the cache *)

\* the cached function is called: a live entry is returned as it is
CacheLookup(s) ==
    /\ pc[s] = "lookup"
    /\ IF Live(cache, clock)
       THEN /\ gdf' = [gdf EXCEPT ![s] = cache.value]
            /\ pc' = [pc EXCEPT ![s] = "sidebar"]
       ELSE /\ pc' = [pc EXCEPT ![s] = "wait_lock"]
            /\ UNCHANGED gdf
    /\ UNCHANGED <<feed, cache, storedAt, lock, clock, err, df, widgets,
                   selected_date, filtered, view, prev, budget>>

\* mutant: the miss computes without looking again under the lock
AcquireLockNoRecheck(s) ==
    /\ pc[s] = "wait_lock"
    /\ lock = 0
    /\ lock' = s
    /\ pc' = [pc EXCEPT ![s] = "read_csv"]
    /\ UNCHANGED <<feed, cache, storedAt, clock, err, df, gdf, widgets,
                   selected_date, filtered, view, prev, budget>>

\* a miss takes the entry's compute lock and looks again before computing
AcquireLock(s) ==
    /\ pc[s] = "wait_lock"
    /\ lock = 0
    /\ IF Live(cache, clock)
       THEN /\ gdf' = [gdf EXCEPT ![s] = cache.value]
            /\ pc' = [pc EXCEPT ![s] = "sidebar"]
            /\ UNCHANGED lock
       ELSE /\ lock' = s
            /\ pc' = [pc EXCEPT ![s] = "read_csv"]
            /\ UNCHANGED gdf
    /\ UNCHANGED <<feed, cache, storedAt, clock, err, df, widgets,
                   selected_date, filtered, view, prev, budget>>

\* line 14: pd.read_csv(FIRMS_URL); a failure leaves the function, frees the
\* lock and ends the run
LoadReadCsv(s) ==
    /\ pc[s] = "read_csv"
    /\ IF feed.ok
       THEN /\ df' = [df EXCEPT ![s] = feed.rows]
            /\ pc' = [pc EXCEPT ![s] = "to_datetime"]
            /\ UNCHANGED <<err, lock>>
       ELSE /\ pc' = [pc EXCEPT ![s] = "error"]
            /\ err' = [err EXCEPT ![s] = "FetchError"]
            /\ lock' = 0
            /\ UNCHANGED df
    /\ UNCHANGED <<feed, cache, storedAt, clock, gdf, widgets,
                   selected_date, filtered, view, prev, budget>>

\* one line of the function body on the frame it is building
LoadStep(s, at, frame, next) ==
    /\ pc[s] = at
    /\ df' = [df EXCEPT ![s] = frame]
    /\ pc' = [pc EXCEPT ![s] = next]
    /\ UNCHANGED <<feed, cache, storedAt, lock, clock, err, gdf, widgets,
                   selected_date, filtered, view, prev, budget>>

LoadParseDates(s) == LoadStep(s, "to_datetime", ParseDates(df[s]), "dropna")

LoadDropNa(s) == LoadStep(s, "dropna", DropNa(df[s]), "geometry")

\* mutant: the entry is refreshed column by column while it is built
LoadGeometryPublish(s) ==
    /\ pc[s] = "geometry"
    /\ df' = [df EXCEPT ![s] = AddGeometry(df[s])]
    /\ cache' = Store(AddGeometry(df[s]), clock)
    /\ storedAt' = clock
    /\ pc' = [pc EXCEPT ![s] = "value"]
    /\ UNCHANGED <<feed, lock, clock, err, gdf, widgets, selected_date,
                   filtered, view, prev, budget>>

LoadGeometry(s) == LoadStep(s, "geometry", AddGeometry(df[s]), "value")

\* lines 19-20: the value column, then the return: the result is stored in
\* the cache, the lock is freed and the caller gets the table
LoadReturn(s) ==
    /\ pc[s] = "value"
    /\ cache' = Store(AddValue(df[s]), clock)
    /\ storedAt' = clock
    /\ lock' = 0
    /\ gdf' = [gdf EXCEPT ![s] = AddValue(df[s])]
    /\ df' = [df EXCEPT ![s] = <<>>]
    /\ pc' = [pc EXCEPT ![s] = "sidebar"]
    /\ UNCHANGED <<feed, clock, err, widgets, selected_date, filtered, view,
                   prev, budget>>

-----------------------------------------------------------------------------
(* Lines 24-47: the sidebar and the filter *)

DateLE(a, b) ==
    \/ a[1] < b[1]
    \/ a[1] = b[1] /\ a[2] < b[2]
    \/ a[1] = b[1] /\ a[2] = b[2] /\ a[3] <= b[3]

\* mutant: min() in place of max()
MinDate(S) == CHOOSE d \in S : \A e \in S : DateLE(d, e)

MaxDate(S) == CHOOSE d \in S : \A e \in S : DateLE(e, d)

\* Series.dt.date of one timestamp
DtDate(ts) == ts.date

Range(f) == {f[i] : i \in DOMAIN f}

\* line 28: gdf["acq_date"].dt.date.unique()
AvailableDates(table) == {DtDate(r.acq_date) : r \in Range(table)}

\* lines 25-44; max() of no dates raises ValueError at line 29
Sidebar(s) ==
    /\ pc[s] = "sidebar"
    /\ IF AvailableDates(gdf[s]) = {}
       THEN /\ pc' = [pc EXCEPT ![s] = "error"]
            /\ err' = [err EXCEPT ![s] = "ValueError"]
            /\ UNCHANGED selected_date
       ELSE /\ selected_date' = [selected_date EXCEPT ![s] =
                    IF widgets[s].date = NoDate
                    THEN MaxDate(AvailableDates(gdf[s]))
                    ELSE widgets[s].date]
            /\ pc' = [pc EXCEPT ![s] = "filter"]
            /\ UNCHANGED err
    /\ UNCHANGED <<feed, cache, storedAt, lock, clock, df, gdf, widgets,
                   filtered, view, prev, budget>>

\* mutant: <= in place of ==
OnDateUpTo(d, r) == DateLE(DtDate(r.acq_date), d)

OnDate(d, r) == DtDate(r.acq_date) = d

\* gdf[gdf["acq_date"].dt.date == selected_date]
FilterRows(table, d) == SelectSeq(table, LAMBDA r : OnDate(d, r))

\* mutant: the filter narrows the cached frame itself
FilterInPlace(s) ==
    /\ pc[s] = "filter"
    /\ filtered' = [filtered EXCEPT ![s] = FilterRows(gdf[s], selected_date[s])]
    /\ cache' = [cache EXCEPT !.value = FilterRows(gdf[s], selected_date[s])]
    /\ pc' = [pc EXCEPT ![s] = "map"]
    /\ UNCHANGED <<feed, storedAt, lock, clock, err, df, gdf, widgets,
                   selected_date, view, prev, budget>>

\* line 47
Filter(s) ==
    /\ pc[s] = "filter"
    /\ filtered' = [filtered EXCEPT ![s] = FilterRows(gdf[s], selected_date[s])]
    /\ pc' = [pc EXCEPT ![s] = "map"]
    /\ UNCHANGED <<feed, cache, storedAt, lock, clock, err, df, gdf, widgets,
                   selected_date, view, prev, budget>>

-----------------------------------------------------------------------------
(* Lines 49-101: the page *)

MaxOf(S) == CHOOSE x \in S : \A y \in S : y <= x

\* f"{x:.1f}" of a value kept in tenths: integer part and one decimal
Fmt1(t) == <<t \div 10, t % 10>>

\* the popup text of line 62 and the marker of line 63
Marker(r) ==
    [location |-> <<r.latitude, r.longitude>>,
     popup |-> <<DtDate(r.acq_date), r.brightness, r.confidence>>]

HeatPoint(r) == <<r.latitude, r.longitude, r.value>>

\* mutant: the marker loop nested under the hotspots test
MapViewHotspotsOnly(v, rows, w) ==
    [v EXCEPT !.basemap = w.basemap,
              !.heatmap = IF rows # <<>> /\ w.hotspots
                          THEN Some([i \in DOMAIN rows |-> HeatPoint(rows[i])]) ELSE None,
              !.markers = IF w.hotspots THEN [i \in DOMAIN rows |-> Marker(rows[i])] ELSE <<>>]

\* lines 56-64
MapView(v, rows, w) ==
    [v EXCEPT !.basemap = w.basemap,
              !.heatmap = IF rows # <<>> /\ w.hotspots
                          THEN Some([i \in DOMAIN rows |-> HeatPoint(rows[i])]) ELSE None,
              !.markers = [i \in DOMAIN rows |-> Marker(rows[i])]]

\* lines 66-72
KpiView(v, rows) ==
    IF rows = <<>>
    THEN [v EXCEPT !.total_fires = Some(Len(rows))]
    ELSE [v EXCEPT
            !.total_fires = Some(Len(rows)),
            !.max_brightness =
                Some(Fmt1(MaxOf({r.brightness : r \in Range(rows)}))),
            !.latest_detection =
                Some(DtDate(CHOOSE t \in {r.acq_date : r \in Range(rows)} :
                       \A u \in {r.acq_date : r \in Range(rows)} :
                           DateLE(u.date, t.date))),
            !.latest_city = Some("-")]

\* line 76: value_counts(normalize=True) * 100, as exact fractions
SatelliteShare(rows) ==
    [n \in {r.satellite : r \in Range(rows)} |->
        <<100 * Cardinality({i \in DOMAIN rows : rows[i].satellite = n}),
          Len(rows)>>]

\* line 87: groupby(acq_time // 100).size()
Hourly(rows) ==
    [h \in {r.acq_time \div 100 : r \in Range(rows)} |->
        Cardinality({i \in DOMAIN rows : rows[i].acq_time \div 100 = h})]

\* line 93: the histogram of the confidence column
ConfidenceHist(rows) ==
    [c \in {r.confidence : r \in Range(rows)} |->
        Cardinality({i \in DOMAIN rows : rows[i].confidence = c})]

\* lines 74-94
ChartsView(v, rows) ==
    IF rows = <<>> THEN v
    ELSE [v EXCEPT !.pie = Some(SatelliteShare(rows)),
                   !.hourly = Some(Hourly(rows)),
                   !.confidence_hist = Some(ConfidenceHist(rows))]

\* one line of to_csv(index=False): the columns in frame order
CsvLine(r) ==
    <<r.latitude, r.longitude, r.brightness, DtDate(r.acq_date), r.acq_time,
      r.satellite, r.confidence, <<r.geometry.x, r.geometry.y>>, r.value>>

\* mutant: the download button outside the emptiness test
ExportAlways(v, rows) ==
    [v EXCEPT !.download = Some([file_name |-> "filtered_fires.csv",
                                 data |-> [i \in DOMAIN rows |-> CsvLine(rows[i])]]),
              !.warning = (rows = <<>>)]

\* lines 96-101
ExportView(v, rows) ==
    IF rows # <<>>
    THEN [v EXCEPT !.download = Some([file_name |-> "filtered_fires.csv",
                                      data |-> [i \in DOMAIN rows |-> CsvLine(rows[i])]])]
    ELSE [v EXCEPT !.warning = TRUE]

RenderStep(s, at, newView, next) ==
    /\ pc[s] = at
    /\ view' = [view EXCEPT ![s] = newView]
    /\ pc' = [pc EXCEPT ![s] = next]
    /\ UNCHANGED <<feed, cache, storedAt, lock, clock, err, df, gdf, widgets,
                   selected_date, filtered, prev, budget>>

RenderMap(s) ==
    RenderStep(s, "map", MapView(view[s], filtered[s], widgets[s]), "kpi")

RenderKpis(s) == RenderStep(s, "kpi", KpiView(view[s], filtered[s]), "charts")

RenderCharts(s) ==
    RenderStep(s, "charts", ChartsView(view[s], filtered[s]), "export")

Export(s) == RenderStep(s, "export", ExportView(view[s], filtered[s]), "done")

-----------------------------------------------------------------------------
(* The environment: time passes, the upstream feed changes *)

Tick ==
    /\ clock + ClockStep <= MaxClock
    /\ clock' = clock + ClockStep
    /\ UNCHANGED <<feed, cache, storedAt, lock, pc, err, df, gdf, widgets,
                   selected_date, filtered, view, prev, budget>>

FeedUpdate ==
    /\ budget.feeds < MaxFeedUpdates
    /\ feed' \in SampleFeeds \ {feed}
    /\ budget' = [budget EXCEPT !.feeds = @ + 1]
    /\ UNCHANGED <<cache, storedAt, lock, clock, pc, err, df, gdf, widgets,
                   selected_date, filtered, view, prev>>

-----------------------------------------------------------------------------
(* Specifications *)

Load(s) ==
    \/ CacheLookup(s)
    \/ AcquireLock(s)
    \/ LoadReadCsv(s)
    \/ LoadParseDates(s)
    \/ LoadDropNa(s)
    \/ LoadGeometry(s)
    \/ LoadReturn(s)

Page(s) ==
    \/ Sidebar(s)
    \/ Filter(s)
    \/ RenderMap(s)
    \/ RenderKpis(s)
    \/ RenderCharts(s)
    \/ Export(s)

\* several sessions share the cache while time passes and the feed changes
Next ==
    \/ \E s \in Sessions : Rerun(s) \/ Load(s) \/ Page(s)
    \/ Tick
    \/ FeedUpdate

Spec == Init /\ [][Next]_vars

\* one session, any feed document, the user working the sidebar
NextUI == \E s \in UISessions : Rerun(s) \/ Change(s) \/ Load(s) \/ Page(s)

SpecUI == InitUI /\ [][NextUI]_vars

\* one session working the sidebar while time passes and the feed changes
NextSession ==
    \/ \E s \in UISessions : Rerun(s) \/ Change(s) \/ Load(s) \/ Page(s)
    \/ Tick
    \/ FeedUpdate

SpecSession == Init /\ [][NextSession]_vars

-----------------------------------------------------------------------------
(* Properties *)

\* the run of session s holds the table load_firms_data returned
Loaded(s) ==
    \/ pc[s] \in {"sidebar", "filter", "map", "kpi", "charts", "export", "done"}
    \/ pc[s] = "error" /\ err[s] = "ValueError"

Filtered(s) == pc[s] \in {"map", "kpi", "charts", "export", "done"}

OneHour == 60 * 60

\* the raw columns of a table row, the date as its year, month, day
RawOf(r) ==
    RawRow(r.latitude, r.longitude, r.acq_date.date, r.acq_time,
           r.brightness, r.confidence, r.satellite)

HasAllThree(raw) ==
    raw.latitude # NaN /\ raw.longitude # NaN /\ ToDatetime(raw.acq_date) # NaT

Occurrences(rows, x) == Cardinality({i \in DOMAIN rows : rows[i] = x})

C1_Table(table, raw) ==
    /\ \A i \in DOMAIN table :
          /\ table[i].latitude # NaN
          /\ table[i].longitude # NaN
          /\ table[i].acq_date # NaT
          /\ table[i].geometry.x = table[i].longitude
          /\ table[i].geometry.y = table[i].latitude
    /\ \A x \in Range(raw) :
          Cardinality({i \in DOMAIN table : RawOf(table[i]) = x}) =
              IF HasAllThree(x) THEN Occurrences(raw, x) ELSE 0
    /\ \A i \in DOMAIN table : RawOf(table[i]) \in Range(raw)

\* C1: every row of the table load_firms_data returns has a latitude, a
\* longitude and an acquisition date, its geometry is the point (longitude,
\* latitude), and the table holds exactly the feed rows that have all three
\* fields, as often as the feed has them.
C1_NormalizedTable ==
    /\ \A s \in Sessions : Loaded(s) => C1_Table(gdf[s], feed.rows)
    /\ cache.present => C1_Table(cache.value, feed.rows)

C1_Witness ==
    \E s \in Sessions :
        /\ Loaded(s)
        /\ Len(gdf[s]) = 1
        /\ Len(feed.rows) = 2

\* C2: the filtered rows are exactly the rows of the table whose acquisition
\* date is the selected date: each filtered row is a row of the table on that
\* date, and every row of the table on that date is kept, as often as the
\* table has it.
C2_FilterExact ==
    \A s \in Sessions : Filtered(s) =>
        /\ \A i \in DOMAIN filtered[s] :
              /\ filtered[s][i] \in Range(gdf[s])
              /\ filtered[s][i].acq_date.date = selected_date[s]
        /\ \A r \in Range(gdf[s]) :
              Occurrences(filtered[s], r) =
                  IF r.acq_date.date = selected_date[s]
                  THEN Occurrences(gdf[s], r) ELSE 0

C2_Witness ==
    \E s \in Sessions :
        /\ pc[s] = "done"
        /\ widgets[s].date # NoDate
        /\ Len(filtered[s]) = 1
        /\ Len(gdf[s]) = 2

C3_Fresh == cache.present /\ clock - storedAt < OneHour

\* C3: a request that finds a cache entry younger than one hour returns that
\* entry without fetching, also when it had to wait for the compute lock; the
\* feed is read only when there is no entry or the entry is an hour old, and
\* a request that finds no such entry goes on to fetch.
C3_CacheReuse ==
    [][\A s \in Sessions :
        /\ (pc[s] \in {"lookup", "wait_lock"} /\ pc'[s] # pc[s] /\ C3_Fresh)
              => (pc'[s] = "sidebar" /\ gdf'[s] = cache.value /\ cache' = cache)
        /\ (pc[s] = "read_csv" /\ pc'[s] # pc[s]) => ~C3_Fresh
        /\ (pc[s] = "lookup" /\ pc'[s] # pc[s] /\ ~C3_Fresh)
              => pc'[s] = "wait_lock"
        /\ (pc[s] = "wait_lock" /\ pc'[s] # pc[s] /\ ~C3_Fresh)
              => pc'[s] = "read_csv"]_vars

C3_Witness ==
    \E s \in Sessions :
        /\ pc[s] = "sidebar"
        /\ budget.runs[s] > 1
        /\ C3_Fresh
        /\ storedAt >= OneHour
        /\ clock > storedAt
        /\ gdf[s] = cache.value

\* C4: a feed that was fetched but has no valid row ends the run normally;
\* only a feed that cannot be fetched or parsed aborts a run.
C4_OnlyFetchErrorAborts ==
    \A s \in Sessions : pc[s] = "error" => ~feed.ok

\* C5: a run over a non-empty table finishes without error; when no row is
\* on the selected date, Total Fires is 0, the map has no heat overlay and no
\* marker, no pie, hourly or confidence chart is drawn, no download is
\* offered and the warning is shown; the download is offered, and the warning
\* not shown, exactly when the filtered set is non-empty.
C5_EmptySelection ==
    \A s \in Sessions :
        /\ (pc[s] = "error" /\ err[s] = "ValueError") => gdf[s] = <<>>
        /\ pc[s] = "done" =>
              /\ (\A r \in Range(gdf[s]) : r.acq_date.date # selected_date[s])
                    => /\ filtered[s] = <<>>
                       /\ view[s].total_fires = Some(0)
                       /\ view[s].heatmap = None
                       /\ view[s].markers = <<>>
                       /\ view[s].pie = None
                       /\ view[s].hourly = None
                       /\ view[s].confidence_hist = None
                       /\ view[s].download = None
                       /\ view[s].warning
              /\ (view[s].download # None) = (filtered[s] # <<>>)
              /\ view[s].warning = (filtered[s] = <<>>)

C5_Witness ==
    \E s \in Sessions :
        /\ pc[s] = "done"
        /\ gdf[s] # <<>>
        /\ filtered[s] = <<>>
        /\ view[s].warning

\* C6: while the cache entry is younger than one hour no step changes it,
\* whatever the user does in the sidebar, and every run that has loaded its
\* table in that window holds the rows of the entry.
C6_CacheImmutable ==
    /\ [][(C3_Fresh /\ clock' - storedAt < OneHour) => cache' = cache]_vars
    /\ [](\A s \in UISessions :
            (Loaded(s) /\ cache.present) => gdf[s] = cache.value)

C6_Witness ==
    \E s \in UISessions :
        /\ pc[s] = "done"
        /\ budget.changes[s] = 2
        /\ prev[s].valid
        /\ prev[s].selected_date # selected_date[s]
        /\ C3_Fresh
        /\ gdf[s] = cache.value
        /\ Len(gdf[s]) = 2

\* rough extents, in whole degrees, that contain each province and each city
InBox(loc, latLo, latHi, lonLo, lonHi) ==
    loc[1] >= latLo /\ loc[1] <= latHi /\ loc[2] >= lonLo /\ loc[2] <= lonHi

InProvince(loc, p) ==
    CASE p = "Quebec" -> InBox(loc, 44, 63, 0 - 80, 0 - 57)
      [] p = "Alberta" -> InBox(loc, 48, 60, 0 - 120, 0 - 110)
      [] p = "Ontario" -> InBox(loc, 41, 57, 0 - 96, 0 - 74)
      [] OTHER -> TRUE

InCity(loc, c) ==
    CASE c = "Red Deer" -> InBox(loc, 51, 53, 0 - 115, 0 - 113)
      [] c = "Toronto" -> InBox(loc, 43, 44, 0 - 80, 0 - 79)
      [] OTHER -> TRUE

\* C7: the rendered rows are restricted by the selected province and city:
\* with a province or city other than "All" every marker on the map lies in
\* that province or city.
C7_ProvinceCityRestrict ==
    \A s \in Sessions : pc[s] = "done" =>
        \A i \in DOMAIN view[s].markers :
            /\ InProvince(view[s].markers[i].location, widgets[s].province)
            /\ InCity(view[s].markers[i].location, widgets[s].city)

\* a table load_firms_data has built to the end
Complete(table) ==
    \A i \in DOMAIN table :
        /\ {"geometry", "value"} \subseteq DOMAIN table[i]
        /\ table[i].latitude # NaN
        /\ table[i].longitude # NaN
        /\ table[i].acq_date # NaT
        /\ table[i].value = table[i].brightness
        /\ table[i].geometry = [x |-> table[i].longitude, y |-> table[i].latitude]

\* C8: the cache entry and the table every run holds are always completely
\* built tables, also while another session rebuilds the expired entry, and a
\* run keeps the table it obtained until it ends.
C8_AtomicRefresh ==
    /\ [](/\ cache.present => Complete(cache.value)
          /\ \A s \in Sessions : Loaded(s) => Complete(gdf[s]))
    /\ [][\A s \in Sessions :
            (Loaded(s) /\ pc'[s] # "lookup") => gdf'[s] = gdf[s]]_vars

C8_Witness ==
    \E s \in Sessions : \E t \in Sessions :
        /\ pc[s] = "filter"
        /\ pc[t] = "value"
        /\ cache.present
        /\ clock >= cache.expires
        /\ gdf[s] = cache.value
        /\ gdf[s] # AddValue(df[t])

\* C9: when the user has picked no date the selected date is the latest
\* acquisition date of the table; such a run over a non-empty table shows a
\* non-empty filtered set and the "Latest Detection" metric is the selected
\* date.
C9_DefaultDate ==
    \A s \in Sessions :
        (widgets[s].date = NoDate /\ Loaded(s) /\ gdf[s] # <<>>) =>
            /\ pc[s] # "error"
            /\ pc[s] # "sidebar" =>
                  /\ \E i \in DOMAIN gdf[s] :
                        gdf[s][i].acq_date.date = selected_date[s]
                  /\ \A i \in DOMAIN gdf[s] :
                        DateLE(gdf[s][i].acq_date.date, selected_date[s])
            /\ pc[s] = "done" =>
                  /\ filtered[s] # <<>>
                  /\ view[s].latest_detection = Some(selected_date[s])

C9_Witness ==
    \E s \in Sessions :
        /\ pc[s] = "done"
        /\ widgets[s].date = NoDate
        /\ Len(gdf[s]) = 2
        /\ gdf[s][1].acq_date # gdf[s][2].acq_date
        /\ Len(filtered[s]) = 1

\* w and u differ at most in the three layer toggles without data
SameButPlaceholders(w, u) ==
    [w EXCEPT !.temperature = FALSE, !.wind = FALSE, !.precipitation = FALSE]
        = [u EXCEPT !.temperature = FALSE, !.wind = FALSE,
                    !.precipitation = FALSE]

\* C10: the map of a finished run has one marker per filtered row, in row
\* order at the row's (latitude, longitude), with the Hotspots toggle on or
\* off; the heat overlay is there exactly when Hotspots is on and a row is
\* filtered; and a run that differs from the previous one only in the
\* Temperature, Wind and Precipitation toggles renders the same page.
C10_MapLayers ==
    \A s \in Sessions : pc[s] = "done" =>
        /\ Len(view[s].markers) = Len(filtered[s])
        /\ \A i \in DOMAIN filtered[s] :
              view[s].markers[i].location =
                  <<filtered[s][i].latitude, filtered[s][i].longitude>>
        /\ (view[s].heatmap # None) =
              (widgets[s].hotspots /\ filtered[s] # <<>>)
        /\ (/\ prev[s].valid
            /\ prev[s].gdf = gdf[s]
            /\ SameButPlaceholders(prev[s].widgets, widgets[s]))
              => view[s] = prev[s].view

C10_Witness ==
    \E s \in Sessions :
        /\ pc[s] = "done"
        /\ Len(filtered[s]) = 2
        /\ ~widgets[s].hotspots
        /\ prev[s].valid
        /\ prev[s].widgets # widgets[s]
        /\ SameButPlaceholders(prev[s].widgets, widgets[s])
        /\ Len(view[s].markers) = 2

====
